---- MODULE Spec2Model ----
(***************************************************************************)
(* Model of package limitedlistener (src/limitedlistener.go, lines 110 to  *)
(* 265): a net.Listener whose accepted connections are throttled by one    *)
(* shared global rate.Limiter and one private rate.Limiter each.           *)
(*                                                                         *)
(* Goroutines are modelled as threads with a program counter.  A step of   *)
(* a thread is one access to shared state (a limiter method, which holds   *)
(* the limiter's own mutex for its whole body, a lock operation of the     *)
(* listener's RWMutex, a map access), so that every interleaving the Go    *)
(* scheduler can produce between such accesses is an interleaving of the    *)
(* model.  Time is counted in whole seconds; a limiter holds whole tokens. *)
(***************************************************************************)
EXTENDS Integers, FiniteSets, Sequences, TLC

\* ----------------------------------------------------------------- bounds
MaxLimit == 2      \* largest limit handed to NewLimitedListener / SetLimits
MaxBuf == 2        \* largest len(b) handed to Read
MaxTime == 1       \* seconds the clock runs
MaxSetCalls == 1   \* valid SetLimits calls started by one goroutine
MaxReads == 2      \* Read calls started

\* The longest a Read can have to sleep: every token ever requested, at one token
\* per second.
Horizon == MaxTime + MaxReads * MaxBuf

ArgValues == (0 - 1)..MaxLimit     \* arguments tried, invalid ones included
Conns == {1, 2}                    \* the raw connections the transport hands out
Acceptors == {"a1", "a2"}          \* goroutines calling Accept
Setters == {"s1", "s2"}            \* goroutines calling SetLimits
Closers == {"k1", "k2"}            \* goroutines calling Close on one connection
GrowLimits == {1, 3}               \* limits below and above the largest len(b)

Min(a, b) == IF a < b THEN a ELSE b

\* ------------------------------------------------------------------ state
VARIABLES
  newArgs,                \* arguments of the last NewLimitedListener call
  newResult,              \* its error: "none" (not called), "nil", or the error
  constructed,            \* a *LimitedListener has been returned
  globalLimiter,          \* l.globalLimiter: [limit, burst, tokens, last]
  perConnBandwidthLimit,  \* l.perConnBandwidthLimit
  connections,            \* key set of the map l.connections
  limiter,                \* lc.limiter of every connection: [limit, burst, tokens, last]
  lockW,                  \* l.RWMutex: the goroutine holding Lock, or "free"
  lockR,                  \* l.RWMutex: the goroutines holding RLock
  nextConn,               \* raw connections handed out so far by l.Listener.Accept
  acc,                    \* Accept goroutines: [pc, conn, snap (the map it found)]
  set,                    \* SetLimits goroutines: [pc, global, perConn, todo, cur]
  rd,                     \* Read goroutine of each connection: [pc, len, allowed, wake,
                          \*   seen (the burst the re-check read), err (the last result)]
  cl,                     \* Close goroutines of each connection: pc
  now,                    \* the clock, in seconds
  fatal,                  \* the Go runtime has stopped the process
  hist                    \* the transport and observations, never read by the package:
                          \*   listenerClosed: the raw listener has been closed
                          \*   atClose: the Reads started, the SetLimits calls started
                          \*     and the connections closed when it was closed
                          \*   acceptFailed: "no", or the state of the raw listener when
                          \*     Accept last returned its error: "open" or "closed"
                          \*   accepted: connections Accept has returned
                          \*   acceptedAt[c]: second at which c's limiter was created
                          \*   wrote[c]: "no", or how the last Write on c found the two
                          \*     buckets: "empty" (neither held a token) or "spare"
                          \*   lastSet: arguments of the SetLimits that took the lock last
                          \*   contended: a valid SetLimits call was made while another
                          \*     one was in progress
                          \*   closed: connections a Close call has returned for
                          \*   removals[c]: map entries the Close calls on c deleted
                          \*   removed[c]: the keys of those entries
                          \*   rawCloses[c]: Close calls forwarded to c's raw connection
                          \*   setStarted[s]: valid SetLimits calls of goroutine s so far
                          \*   reads: Read calls so far
                          \*   taken: tokens the Reads have taken so far from the
                          \*     global bucket and from the local buckets
                          \*   bytes[c][t]: bytes the Reads of c returned at second t

vars == <<newArgs, newResult, constructed, globalLimiter, perConnBandwidthLimit,
          connections, limiter, lockW, lockR, nextConn, acc, set, rd, cl, now, fatal, hist>>

\* ---------------------------------------------- golang.org/x/time/rate.Limiter
\* rate.NewLimiter(r, b): a full bucket.
NewLimiter(r, b, t) == [limit |-> r, burst |-> b, tokens |-> b, last |-> t]

NoLimiter == [limit |-> 0, burst |-> 0, tokens |-> 0, last |-> 0]

\* Limiter.advance: the tokens banked at time t, capped at the burst.
Advance(lim, t) == Min(lim.burst, lim.tokens + lim.limit * (t - lim.last))

\* Limiter.SetLimit: bank the tokens accrued so far, then replace the rate.
SetLimit(lim, t, newLimit) ==
  [lim EXCEPT !.tokens = Advance(lim, t), !.last = t, !.limit = newLimit]

\* Mutant of SetBurst: the bucket is refilled to its new burst.
SetBurstRefilled(lim, t, newBurst) ==
  [lim EXCEPT !.tokens = newBurst, !.last = t, !.burst = newBurst]

\* Limiter.SetBurst: bank the tokens accrued so far, then replace the burst.
SetBurst(lim, t, newBurst) ==
  [lim EXCEPT !.tokens = Advance(lim, t), !.last = t, !.burst = newBurst]

\* Limiter.Burst.
Burst(lim) == lim.burst

\* Mutant of WaitOk: a request for the whole burst is refused too.
WaitOkBelowBurst(lim, n) == n < lim.burst

\* Limiter.WaitN(ctx, n) fails when n exceeds the burst: WaitN tests it before it
\* reserves ("rate: Wait(n) exceeds limiter's burst") and reserveN tests it again.
\* With context.Background() there is no deadline and no cancellation, so this is
\* the only way WaitN fails.
WaitOk(lim, n) == n <= Burst(lim)

\* Limiter.reserveN: seconds to wait until n tokens have accrued.
WaitDuration(lim, t, n) ==
  LET tokens == Advance(lim, t) - n
  IN  IF tokens < 0 THEN ((0 - tokens) + lim.limit - 1) \div lim.limit ELSE 0

\* Limiter.reserveN, state update: the n tokens are deducted at once (the bucket
\* may go negative), the caller then sleeps WaitDuration.
Reserve(lim, t, n) == [lim EXCEPT !.tokens = Advance(lim, t) - n, !.last = t]

\* The process runs until the Go runtime stops it with a fatal error.
Running == ~fatal

\* ---------------------------------------------------------- NewLimitedListener
\* Mutant of NewLimitedListenerError: "<=" for "<" in the second test, so equal
\* limits are refused.
NewLimitedListenerErrorStrict(globalLimit, perConnLimit) ==
  IF globalLimit <= 0 \/ perConnLimit <= 0 THEN "ErrLimitOutOfRange"
  ELSE IF globalLimit <= perConnLimit THEN "ErrInvalidLimits"
  ELSE "nil"

\* The validation of NewLimitedListener: the error returned, "nil" for none.
NewLimitedListenerError(globalLimit, perConnLimit) ==
  IF globalLimit <= 0 \/ perConnLimit <= 0 THEN "ErrLimitOutOfRange"
  ELSE IF globalLimit < perConnLimit THEN "ErrInvalidLimits"
  ELSE "nil"

IdleAcc == [pc |-> "idle", conn |-> 0, snap |-> {}]
IdleSet == [pc |-> "idle", global |-> 0, perConn |-> 0, todo |-> {}, cur |-> 0]
IdleRd == [pc |-> "idle", len |-> 0, allowed |-> 0, wake |-> 0, seen |-> 0, err |-> "none"]

\* Read has returned with the result err: "nil", "global" or "local".
ReturnedRd(err) == [IdleRd EXCEPT !.err = err]

Init ==
  /\ newArgs = <<0, 0>>
  /\ newResult = "none"
  /\ constructed = FALSE
  /\ globalLimiter = NoLimiter
  /\ perConnBandwidthLimit = 0
  /\ connections = {}
  /\ limiter = [c \in Conns |-> NoLimiter]
  /\ lockW = "free"
  /\ lockR = {}
  /\ nextConn = 0
  /\ acc = [a \in Acceptors |-> IdleAcc]
  /\ set = [s \in Setters |-> IdleSet]
  /\ rd = [c \in Conns |-> IdleRd]
  /\ cl = [c \in Conns |-> [k \in Closers |-> "idle"]]
  /\ now = 0
  /\ fatal = FALSE
  /\ hist = [listenerClosed |-> FALSE, acceptFailed |-> "no",
             atClose |-> [reads |-> 0, sets |-> 0, closed |-> {}],
             accepted |-> {}, acceptedAt |-> [c \in Conns |-> 0], wrote |-> [c \in Conns |-> "no"],
             closed |-> {}, removals |-> [c \in Conns |-> 0],
             removed |-> [c \in Conns |-> {}],
             rawCloses |-> [c \in Conns |-> 0],
             setStarted |-> [s \in Setters |-> 0], lastSet |-> <<0, 0>>, contended |-> FALSE,
             reads |-> 0, taken |-> [global |-> 0, local |-> 0],
             bytes |-> [c \in Conns |-> [t \in 0..Horizon |-> 0]]]

\* NewLimitedListener(listener, globalLimit, perConnLimit).
NewLimitedListener(globalLimit, perConnLimit) ==
  /\ Running
  /\ ~constructed
  /\ newArgs' = <<globalLimit, perConnLimit>>
  /\ newResult' = NewLimitedListenerError(globalLimit, perConnLimit)
  /\ IF NewLimitedListenerError(globalLimit, perConnLimit) = "nil"
     THEN /\ constructed' = TRUE
          /\ globalLimiter' = NewLimiter(globalLimit, globalLimit, now)
          /\ perConnBandwidthLimit' = perConnLimit
          /\ connections' = {}
     ELSE UNCHANGED <<constructed, globalLimiter, perConnBandwidthLimit, connections>>
  /\ UNCHANGED <<limiter, lockW, lockR, nextConn, acc, set, rd, cl, now, fatal, hist>>

\* ------------------------------------------------------- LimitedListener.Accept
\* Mutant of MapInsert: the write also restores every connection handed out
\* earlier.
MapInsertUpTo(m, c) == m \cup 1..c

\* l.connections[limitedConnection] = struct{}{}: the map this write leaves, from
\* the map the writer found.
MapInsert(m, c) == m \cup {c}

\* conn, err := l.Listener.Accept() hands out a new raw connection; l.RLock() (a
\* read lock excludes writers only, not other readers);
\* NewLimitedConnection(conn, l.globalLimiter, l.perConnBandwidthLimit, l); and the
\* map write's look at the map.
AcceptBegin(a) ==
  /\ Running
  /\ constructed /\ acc[a].pc = "idle" /\ nextConn + 1 \in Conns
  /\ ~hist.listenerClosed
  /\ lockW = "free"
  /\ nextConn' = nextConn + 1
  /\ lockR' = lockR \cup {a}
  /\ limiter' = [limiter EXCEPT ![nextConn + 1] =
                   NewLimiter(perConnBandwidthLimit, perConnBandwidthLimit, now)]
  /\ acc' = [acc EXCEPT ![a] = [pc |-> "store", conn |-> nextConn + 1, snap |-> connections]]
  /\ hist' = [hist EXCEPT !.acceptedAt[nextConn + 1] = now]
  /\ UNCHANGED <<newArgs, newResult, constructed, globalLimiter, perConnBandwidthLimit,
                 connections, lockW, set, rd, cl, now, fatal>>

\* Mutant of AcceptError: the failed Accept wraps and registers a connection all
\* the same.
AcceptErrorRegisters(a) ==
  /\ Running
  /\ constructed /\ acc[a].pc = "idle" /\ nextConn + 1 \in Conns
  /\ nextConn' = nextConn + 1
  /\ limiter' = [limiter EXCEPT ![nextConn + 1] =
                   NewLimiter(perConnBandwidthLimit, perConnBandwidthLimit, now)]
  /\ connections' = MapInsert(connections, nextConn + 1)
  /\ hist' = [hist EXCEPT !.acceptFailed = IF hist.listenerClosed THEN "closed" ELSE "open"]
  /\ UNCHANGED <<newArgs, newResult, constructed, globalLimiter, perConnBandwidthLimit,
                 lockW, lockR, acc, set, rd, cl, now, fatal>>

\* conn, err := l.Listener.Accept() fails (as it always does once the raw listener
\* is closed): return nil, err.
AcceptError(a) ==
  /\ Running
  /\ constructed /\ acc[a].pc = "idle"
  /\ hist' = [hist EXCEPT !.acceptFailed = IF hist.listenerClosed THEN "closed" ELSE "open"]
  /\ UNCHANGED <<newArgs, newResult, constructed, globalLimiter, perConnBandwidthLimit,
                 connections, limiter, lockW, lockR, nextConn, acc, set, rd, cl, now, fatal>>

\* The map write completes; defer l.RUnlock(); return limitedConnection, nil.
\* Under RLock another Accept may be inside its own map write: a data race on the
\* map, whose outcomes are a lost write or the runtime's "fatal error: concurrent
\* map writes".
AcceptStore(a) ==
  /\ Running
  /\ acc[a].pc = "store"
  /\ \/ /\ connections' = MapInsert(acc[a].snap, acc[a].conn)
        /\ lockR' = lockR \ {a}
        /\ acc' = [acc EXCEPT ![a] = IdleAcc]
        /\ hist' = [hist EXCEPT !.accepted = @ \cup {acc[a].conn}]
        /\ UNCHANGED fatal
     \/ /\ \E b \in Acceptors \ {a} : acc[b].pc = "store"
        /\ fatal' = TRUE
        /\ UNCHANGED <<connections, lockR, acc, hist>>
  /\ UNCHANGED <<newArgs, newResult, constructed, globalLimiter, perConnBandwidthLimit,
                 limiter, lockW, nextConn, set, rd, cl, now>>

\* ------------------------------------------------------- LimitedListener.Close
\* Mutant of ListenerClose: closing the listener drops the tracked connections.
ListenerCloseAll ==
  /\ Running
  /\ constructed /\ ~hist.listenerClosed
  /\ connections' = {}
  /\ hist' = [hist EXCEPT !.listenerClosed = TRUE,
                          !.atClose = [reads |-> hist.reads,
                                       sets |-> hist.setStarted["s1"] + hist.setStarted["s2"],
                                       closed |-> hist.closed]]
  /\ UNCHANGED <<newArgs, newResult, constructed, globalLimiter, perConnBandwidthLimit,
                 limiter, lockW, lockR, nextConn, acc, set, rd, cl, now, fatal>>

\* LimitedListener declares no Close: the call goes to the embedded net.Listener.
ListenerClose ==
  /\ Running
  /\ constructed /\ ~hist.listenerClosed
  /\ hist' = [hist EXCEPT !.listenerClosed = TRUE,
                          !.atClose = [reads |-> hist.reads,
                                       sets |-> hist.setStarted["s1"] + hist.setStarted["s2"],
                                       closed |-> hist.closed]]
  /\ UNCHANGED <<newArgs, newResult, constructed, globalLimiter, perConnBandwidthLimit,
                 connections, limiter, lockW, lockR, nextConn, acc, set, rd, cl, now, fatal>>

\* ---------------------------------------------------- LimitedListener.SetLimits
\* Mutant of SetLimitsRejects: the test global < perConn is missing.
SetLimitsRejectsSignOnly(global, perConn) == global <= 0 \/ perConn <= 0

\* if global <= 0 || perConn <= 0 || global < perConn { return }
SetLimitsRejects(global, perConn) == global <= 0 \/ perConn <= 0 \/ global < perConn

\* A goroutine calls SetLimits(global, perConn); the validation is a computation on
\* the arguments alone.  A rejected call keeps nothing of its arguments.
SetLimitsCall(s, global, perConn) ==
  /\ Running
  /\ constructed /\ set[s].pc = "idle"
  /\ IF SetLimitsRejects(global, perConn)
     THEN /\ set' = [set EXCEPT ![s].pc = "rejected"]
          /\ UNCHANGED hist
     ELSE /\ hist.setStarted[s] < MaxSetCalls
          /\ set' = [set EXCEPT ![s] = [pc |-> "lock", global |-> global,
                                        perConn |-> perConn, todo |-> {}, cur |-> 0]]
          /\ hist' = [hist EXCEPT !.setStarted[s] = @ + 1,
                                  !.contended = @ \/ \E t \in Setters \ {s} :
                                                       set[t].pc \notin {"idle", "rejected"}]
  /\ UNCHANGED <<newArgs, newResult, constructed, globalLimiter, perConnBandwidthLimit,
                 connections, limiter, lockW, lockR, nextConn, acc, rd, cl, now, fatal>>

\* The "return" of a rejected call.
SetLimitsRejected(s) ==
  /\ Running
  /\ set[s].pc = "rejected"
  /\ set' = [set EXCEPT ![s] = IdleSet]
  /\ UNCHANGED <<newArgs, newResult, constructed, globalLimiter, perConnBandwidthLimit,
                 connections, limiter, lockW, lockR, nextConn, acc, rd, cl, now, fatal, hist>>

\* Mutant of SetGlobalLimit: SetLimits does not wait for the lock.
SetGlobalLimitUnlocked(s) ==
  /\ Running
  /\ set[s].pc = "lock"
  /\ lockW' = s
  /\ globalLimiter' = SetLimit(globalLimiter, now, set[s].global)
  /\ set' = [set EXCEPT ![s].pc = "gburst"]
  /\ hist' = [hist EXCEPT !.lastSet = <<set[s].global, set[s].perConn>>]
  /\ UNCHANGED <<newArgs, newResult, constructed, perConnBandwidthLimit,
                 connections, limiter, lockR, nextConn, acc, rd, cl, now, fatal>>

\* l.Lock() (exclusive), then l.globalLimiter.SetLimit(rate.Limit(global)).
SetGlobalLimit(s) ==
  /\ Running
  /\ set[s].pc = "lock" /\ lockW = "free" /\ lockR = {}
  /\ lockW' = s
  /\ globalLimiter' = SetLimit(globalLimiter, now, set[s].global)
  /\ set' = [set EXCEPT ![s].pc = "gburst"]
  /\ hist' = [hist EXCEPT !.lastSet = <<set[s].global, set[s].perConn>>]
  /\ UNCHANGED <<newArgs, newResult, constructed, perConnBandwidthLimit,
                 connections, limiter, lockR, nextConn, acc, rd, cl, now, fatal>>

\* l.globalLimiter.SetBurst(global); l.perConnBandwidthLimit = perConn (a field
\* only Accept reads, under RLock); the range statement starts.
SetGlobalBurst(s) ==
  /\ Running
  /\ set[s].pc = "gburst"
  /\ globalLimiter' = SetBurst(globalLimiter, now, set[s].global)
  /\ perConnBandwidthLimit' = set[s].perConn
  /\ set' = [set EXCEPT ![s].pc = "range", ![s].todo = connections]
  /\ UNCHANGED <<newArgs, newResult, constructed,
                 connections, limiter, lockW, lockR, nextConn, acc, rd, cl, now, fatal, hist>>

\* The connections the loop "for connection := range l.connections" visits.
RangeOver(m) == m

\* connection.limiter.SetLimit(rate.Limit(perConn)), for the next connection of the
\* range, in any order.
SetConnLimit(s) ==
  /\ Running
  /\ set[s].pc = "range"
  /\ \E c \in RangeOver(set[s].todo) :
       /\ limiter' = [limiter EXCEPT ![c] = SetLimit(limiter[c], now, set[s].perConn)]
       /\ set' = [set EXCEPT ![s].pc = "cburst", ![s].cur = c]
  /\ UNCHANGED <<newArgs, newResult, constructed, globalLimiter, perConnBandwidthLimit,
                 connections, lockW, lockR, nextConn, acc, rd, cl, now, fatal, hist>>

\* Mutant of SetConnBurst: the loop sets the rate only, SetBurst is never called.
SetConnBurstForgotten(s) ==
  /\ Running
  /\ set[s].pc = "cburst"
  /\ set' = [set EXCEPT ![s].pc = "range", ![s].todo = @ \ {set[s].cur}, ![s].cur = 0]
  /\ UNCHANGED <<newArgs, newResult, constructed, globalLimiter, perConnBandwidthLimit,
                 connections, limiter, lockW, lockR, nextConn, acc, rd, cl, now, fatal, hist>>

\* connection.limiter.SetBurst(perConn).
SetConnBurst(s) ==
  /\ Running
  /\ set[s].pc = "cburst"
  /\ limiter' = [limiter EXCEPT ![set[s].cur] = SetBurst(limiter[set[s].cur], now, set[s].perConn)]
  /\ set' = [set EXCEPT ![s].pc = "range", ![s].todo = @ \ {set[s].cur}, ![s].cur = 0]
  /\ UNCHANGED <<newArgs, newResult, constructed, globalLimiter, perConnBandwidthLimit,
                 connections, lockW, lockR, nextConn, acc, rd, cl, now, fatal, hist>>

\* The range is over: defer l.Unlock(), return.
SetLimitsReturn(s) ==
  /\ Running
  /\ set[s].pc = "range" /\ RangeOver(set[s].todo) = {}
  /\ lockW' = "free"
  /\ set' = [set EXCEPT ![s] = IdleSet]
  /\ UNCHANGED <<newArgs, newResult, constructed, globalLimiter, perConnBandwidthLimit,
                 connections, limiter, lockR, nextConn, acc, rd, cl, now, fatal, hist>>

\* ------------------------------------------------------- LimitedConnection.Close
\* Mutant of MapDelete: removing a connection that is not registered removes
\* another entry (a removal by position, as from a slice).
MapDeleteSome(m, c) ==
  IF c \in m THEN m \ {c}
  ELSE IF m = {} THEN m
  ELSE m \ {CHOOSE d \in m : TRUE}

\* delete(l.connections, lc).
MapDelete(m, c) == m \ {c}

\* err := lc.Conn.Close(): the call is forwarded to the raw connection.  Any
\* goroutine holding the connection Accept returned may call Close.
CloseRaw(c, k) ==
  /\ Running
  /\ c \in hist.accepted /\ cl[c][k] = "idle"
  /\ cl' = [cl EXCEPT ![c][k] = "remove"]
  /\ hist' = [hist EXCEPT !.rawCloses[c] = @ + 1]
  /\ UNCHANGED <<newArgs, newResult, constructed, globalLimiter, perConnBandwidthLimit,
                 connections, limiter, lockW, lockR, nextConn, acc, set, rd, now, fatal>>

\* err := lc.Conn.Close() where the raw close returns a non-nil error (a second
\* close of a net.Conn does, a first one may): err is kept for the return.
CloseRawError(c, k) ==
  /\ Running
  /\ c \in hist.accepted /\ cl[c][k] = "idle"
  /\ cl' = [cl EXCEPT ![c][k] = "removeErr"]
  /\ hist' = [hist EXCEPT !.rawCloses[c] = @ + 1]
  /\ UNCHANGED <<newArgs, newResult, constructed, globalLimiter, perConnBandwidthLimit,
                 connections, limiter, lockW, lockR, nextConn, acc, set, rd, now, fatal>>

\* Mutant of CloseRemove: Close returns the raw error early and deregisters only
\* after a clean raw close.
CloseRemoveUnlessError(c, k) ==
  /\ Running
  /\ cl[c][k] \in {"remove", "removeErr"} /\ lockW = "free" /\ lockR = {}
  /\ connections' = IF cl[c][k] = "remove" THEN MapDelete(connections, c) ELSE connections
  /\ cl' = [cl EXCEPT ![c][k] = IF cl[c][k] = "remove" THEN "done" ELSE "doneErr"]
  /\ hist' = [hist EXCEPT !.removals[c] = @ + Cardinality(connections \ connections'),
                          !.removed[c] = @ \cup (connections \ connections'),
                          !.closed = @ \cup {c}]
  /\ UNCHANGED <<newArgs, newResult, constructed, globalLimiter, perConnBandwidthLimit,
                 limiter, lockW, lockR, nextConn, acc, set, rd, now, fatal>>

\* lc.parentListener.removeConnection(lc): l.Lock() (exclusive),
\* delete(l.connections, lc), defer l.Unlock(); return err (nil after CloseRaw,
\* the raw error after CloseRawError).
CloseRemove(c, k) ==
  /\ Running
  /\ cl[c][k] \in {"remove", "removeErr"} /\ lockW = "free" /\ lockR = {}
  /\ connections' = MapDelete(connections, c)
  /\ cl' = [cl EXCEPT ![c][k] = IF cl[c][k] = "remove" THEN "done" ELSE "doneErr"]
  /\ hist' = [hist EXCEPT !.removals[c] = @ + Cardinality(connections \ connections'),
                          !.removed[c] = @ \cup (connections \ connections'),
                          !.closed = @ \cup {c}]
  /\ UNCHANGED <<newArgs, newResult, constructed, globalLimiter, perConnBandwidthLimit,
                 limiter, lockW, lockR, nextConn, acc, set, rd, now, fatal>>

\* -------------------------------------------------------- LimitedConnection.Read
\* if allowed > lc.limiter.Burst() { allowed = lc.limiter.Burst() }: the test.
ExceedsBurst(allowed, lim) == allowed > Burst(lim)

\* The bytes lc.Conn.Read(b[:allowed]) may return: at most the slice's length, and
\* none (an error) once the raw connection has been closed.
RawRead(c, allowed) == IF hist.rawCloses[c] > 0 THEN {0} ELSE 0..allowed

\* The handler calls Read(b) with len(b) = n: allowed := len(b), and the first
\* "if allowed > lc.limiter.Burst()".
ReadCall(c, n) ==
  /\ Running
  /\ c \in hist.accepted /\ rd[c].pc = "idle" /\ hist.reads < MaxReads
  /\ rd' = [rd EXCEPT ![c] = [pc |-> IF ExceedsBurst(n, limiter[c]) THEN "take1" ELSE "gwait",
                              len |-> n, allowed |-> n, wake |-> 0, seen |-> 0,
                              err |-> "none"]]
  /\ hist' = [hist EXCEPT !.reads = @ + 1]
  /\ UNCHANGED <<newArgs, newResult, constructed, globalLimiter, perConnBandwidthLimit,
                 connections, limiter, lockW, lockR, nextConn, acc, set, cl, now, fatal>>

\* First "allowed = lc.limiter.Burst()": a second call of Burst.
ReadBurstTake1(c) ==
  /\ Running
  /\ rd[c].pc = "take1"
  /\ rd' = [rd EXCEPT ![c].pc = "gwait", ![c].allowed = Burst(limiter[c])]
  /\ UNCHANGED <<newArgs, newResult, constructed, globalLimiter, perConnBandwidthLimit,
                 connections, limiter, lockW, lockR, nextConn, acc, set, cl, now, fatal, hist>>

\* Mutant of ReadGlobalWait: Read does not wait on the global limiter.
ReadGlobalWaitSkipped(c) ==
  /\ Running
  /\ rd[c].pc = "gwait"
  /\ rd' = [rd EXCEPT ![c].pc = "test2", ![c].wake = now]
  /\ UNCHANGED <<newArgs, newResult, constructed, globalLimiter, perConnBandwidthLimit,
                 connections, limiter, lockW, lockR, nextConn, acc, set, cl, now, fatal, hist>>

\* err := lc.globalLimiter.WaitN(ctx, allowed): the tokens are deducted and the
\* caller sleeps until they have accrued; on failure nothing is deducted and Read
\* returns 0, "global: ...".
ReadGlobalWait(c) ==
  /\ Running
  /\ rd[c].pc = "gwait"
  /\ IF WaitOk(globalLimiter, rd[c].allowed)
     THEN /\ globalLimiter' = Reserve(globalLimiter, now, rd[c].allowed)
          /\ rd' = [rd EXCEPT ![c].pc = "test2",
                              ![c].wake = now + WaitDuration(globalLimiter, now, rd[c].allowed)]
          /\ hist' = [hist EXCEPT !.taken.global = @ + rd[c].allowed]
     ELSE /\ rd' = [rd EXCEPT ![c] = ReturnedRd("global")]
          /\ UNCHANGED <<globalLimiter, hist>>
  /\ UNCHANGED <<newArgs, newResult, constructed, perConnBandwidthLimit,
                 connections, limiter, lockW, lockR, nextConn, acc, set, cl, now, fatal>>

\* The global wait is over; second "if allowed > lc.limiter.Burst()".
ReadBurstTest2(c) ==
  /\ Running
  /\ rd[c].pc = "test2" /\ now >= rd[c].wake
  /\ rd' = [rd EXCEPT ![c].pc = IF ExceedsBurst(rd[c].allowed, limiter[c])
                                 THEN "take2" ELSE "lwait",
                      ![c].wake = 0, ![c].seen = Burst(limiter[c])]
  /\ UNCHANGED <<newArgs, newResult, constructed, globalLimiter, perConnBandwidthLimit,
                 connections, limiter, lockW, lockR, nextConn, acc, set, cl, now, fatal, hist>>

\* Second "allowed = lc.limiter.Burst()".
ReadBurstTake2(c) ==
  /\ Running
  /\ rd[c].pc = "take2"
  /\ rd' = [rd EXCEPT ![c].pc = "lwait", ![c].allowed = Burst(limiter[c]),
                      ![c].seen = Burst(limiter[c])]
  /\ UNCHANGED <<newArgs, newResult, constructed, globalLimiter, perConnBandwidthLimit,
                 connections, limiter, lockW, lockR, nextConn, acc, set, cl, now, fatal, hist>>

\* Mutant of ReadLocalWait: Read does not wait on the connection's own limiter.
ReadLocalWaitSkipped(c) ==
  /\ Running
  /\ rd[c].pc = "lwait"
  /\ rd' = [rd EXCEPT ![c].pc = "read", ![c].wake = now]
  /\ UNCHANGED <<newArgs, newResult, constructed, globalLimiter, perConnBandwidthLimit,
                 connections, limiter, lockW, lockR, nextConn, acc, set, cl, now, fatal, hist>>

\* Mutant of ReadLocalWait: a wait that fails has taken its tokens all the same.
ReadLocalWaitCharged(c) ==
  /\ Running
  /\ rd[c].pc = "lwait"
  /\ limiter' = [limiter EXCEPT ![c] = Reserve(limiter[c], now, rd[c].allowed)]
  /\ rd' = IF WaitOk(limiter[c], rd[c].allowed)
           THEN [rd EXCEPT ![c].pc = "read",
                           ![c].wake = now + WaitDuration(limiter[c], now, rd[c].allowed)]
           ELSE [rd EXCEPT ![c] = ReturnedRd("local")]
  /\ UNCHANGED <<newArgs, newResult, constructed, globalLimiter, perConnBandwidthLimit,
                 connections, lockW, lockR, nextConn, acc, set, cl, now, fatal, hist>>

\* err = lc.limiter.WaitN(ctx, allowed); on failure Read returns 0, "local: ...".
ReadLocalWait(c) ==
  /\ Running
  /\ rd[c].pc = "lwait"
  /\ IF WaitOk(limiter[c], rd[c].allowed)
     THEN /\ limiter' = [limiter EXCEPT ![c] = Reserve(limiter[c], now, rd[c].allowed)]
          /\ rd' = [rd EXCEPT ![c].pc = "read",
                              ![c].wake = now + WaitDuration(limiter[c], now, rd[c].allowed)]
          /\ hist' = [hist EXCEPT !.taken.local = @ + rd[c].allowed]
     ELSE /\ rd' = [rd EXCEPT ![c] = ReturnedRd("local")]
          /\ UNCHANGED <<limiter, hist>>
  /\ UNCHANGED <<newArgs, newResult, constructed, globalLimiter, perConnBandwidthLimit,
                 connections, lockW, lockR, nextConn, acc, set, cl, now, fatal>>

\* The local wait is over; return lc.Conn.Read(b[:allowed]).  When allowed exceeds
\* len(b) the slice expression b[:allowed] either extends the slice into the
\* buffer's spare capacity, or panics when there is none.
ReadConn(c) ==
  /\ Running
  /\ rd[c].pc = "read" /\ now >= rd[c].wake
  /\ \/ /\ \E n \in RawRead(c, rd[c].allowed) :
             hist' = [hist EXCEPT !.bytes[c][now] = @ + n]
        /\ rd' = [rd EXCEPT ![c] = ReturnedRd("nil")]
        /\ UNCHANGED fatal
     \/ /\ rd[c].allowed > rd[c].len
        /\ fatal' = TRUE
        /\ UNCHANGED <<rd, hist>>
  /\ UNCHANGED <<newArgs, newResult, constructed, globalLimiter, perConnBandwidthLimit,
                 connections, limiter, lockW, lockR, nextConn, acc, set, cl, now>>

\* ------------------------------------------------------- LimitedConnection.Write
\* Mutant of Write: Write waits on the connection's limiter for one token per call.
WriteThrottled(c) ==
  /\ Running
  /\ c \in hist.accepted
  /\ WaitOk(limiter[c], 1) /\ WaitDuration(limiter[c], now, 1) = 0
  /\ limiter' = [limiter EXCEPT ![c] = Reserve(limiter[c], now, 1)]
  /\ hist' = [hist EXCEPT !.wrote[c] = "spare"]
  /\ UNCHANGED <<newArgs, newResult, constructed, globalLimiter, perConnBandwidthLimit,
                 connections, lockW, lockR, nextConn, acc, set, rd, cl, now, fatal>>

\* LimitedConnection declares no Write: the call goes to the embedded net.Conn.
Write(c) ==
  /\ Running
  /\ c \in hist.accepted
  /\ hist' = [hist EXCEPT !.wrote[c] =
                 IF Advance(globalLimiter, now) <= 0 /\ Advance(limiter[c], now) <= 0
                 THEN "empty" ELSE "spare"]
  /\ UNCHANGED <<newArgs, newResult, constructed, globalLimiter, perConnBandwidthLimit,
                 connections, limiter, lockW, lockR, nextConn, acc, set, rd, cl, now, fatal>>

\* ------------------------------------------------------------------- the clock
Tick ==
  /\ Running
  /\ constructed /\ now < MaxTime
  /\ now' = now + 1
  /\ UNCHANGED <<newArgs, newResult, constructed, globalLimiter, perConnBandwidthLimit,
                 connections, limiter, lockW, lockR, nextConn, acc, set, rd, cl, fatal, hist>>

\* The clock goes on after the seconds under observation for as long as a Read
\* sleeps in a token wait.
TickWaiting ==
  /\ Running
  /\ constructed /\ now >= MaxTime /\ now < Horizon
  /\ \E c \in Conns : rd[c].pc \in {"test2", "read"} /\ rd[c].wake > now
  /\ now' = now + 1
  /\ UNCHANGED <<newArgs, newResult, constructed, globalLimiter, perConnBandwidthLimit,
                 connections, limiter, lockW, lockR, nextConn, acc, set, rd, cl, fatal, hist>>

\* ---------------------------------------------------------------- specification
Next ==
  \/ \E g \in ArgValues, p \in ArgValues : NewLimitedListener(g, p)
  \/ \E a \in Acceptors : AcceptBegin(a)
  \/ \E a \in Acceptors : AcceptError(a)
  \/ \E a \in Acceptors : AcceptStore(a)
  \/ ListenerClose
  \/ \E s \in Setters, g \in ArgValues, p \in ArgValues : SetLimitsCall(s, g, p)
  \/ \E s \in Setters : SetLimitsRejected(s)
  \/ \E s \in Setters : SetGlobalLimit(s)
  \/ \E s \in Setters : SetGlobalBurst(s)
  \/ \E s \in Setters : SetConnLimit(s)
  \/ \E s \in Setters : SetConnBurst(s)
  \/ \E s \in Setters : SetLimitsReturn(s)
  \/ \E c \in Conns, k \in Closers : CloseRaw(c, k)
  \/ \E c \in Conns, k \in Closers : CloseRawError(c, k)
  \/ \E c \in Conns, k \in Closers : CloseRemove(c, k)
  \/ \E c \in Conns, n \in 1..MaxBuf : ReadCall(c, n)
  \/ \E c \in Conns : ReadBurstTake1(c)
  \/ \E c \in Conns : ReadGlobalWait(c)
  \/ \E c \in Conns : ReadBurstTest2(c)
  \/ \E c \in Conns : ReadBurstTake2(c)
  \/ \E c \in Conns : ReadLocalWait(c)
  \/ \E c \in Conns : ReadConn(c)
  \/ \E c \in Conns : Write(c)
  \/ Tick
  \/ TickWaiting

Spec == Init /\ [][Next]_vars

\* The registry and the limits under concurrent Accept and Close calls and one
\* goroutine setting limits; no Read runs, so the clock stands still.
NextRegistry ==
  \/ \E g \in ArgValues, p \in ArgValues : NewLimitedListener(g, p)
  \/ \E a \in Acceptors : AcceptBegin(a)
  \/ \E a \in Acceptors : AcceptStore(a)
  \/ \E g \in ArgValues, p \in ArgValues : SetLimitsCall("s1", g, p)
  \/ SetLimitsRejected("s1")
  \/ SetGlobalLimit("s1")
  \/ SetGlobalBurst("s1")
  \/ SetConnLimit("s1")
  \/ SetConnBurst("s1")
  \/ SetLimitsReturn("s1")
  \/ \E c \in Conns, k \in Closers : CloseRaw(c, k)
  \/ \E c \in Conns, k \in Closers : CloseRemove(c, k)

SpecRegistry == Init /\ [][NextRegistry]_vars

\* Reads against the clock, with one accept loop and one goroutine setting limits.
NextRead ==
  \/ \E g \in ArgValues, p \in ArgValues : NewLimitedListener(g, p)
  \/ AcceptBegin("a1")
  \/ AcceptStore("a1")
  \/ \E g \in ArgValues, p \in ArgValues : SetLimitsCall("s1", g, p)
  \/ SetLimitsRejected("s1")
  \/ SetGlobalLimit("s1")
  \/ SetGlobalBurst("s1")
  \/ SetConnLimit("s1")
  \/ SetConnBurst("s1")
  \/ SetLimitsReturn("s1")
  \/ \E c \in Conns, n \in 1..MaxBuf : ReadCall(c, n)
  \/ \E c \in Conns : ReadBurstTake1(c)
  \/ \E c \in Conns : ReadGlobalWait(c)
  \/ \E c \in Conns : ReadBurstTest2(c)
  \/ \E c \in Conns : ReadBurstTake2(c)
  \/ \E c \in Conns : ReadLocalWait(c)
  \/ \E c \in Conns : ReadConn(c)
  \/ Tick

SpecRead == Init /\ [][NextRead]_vars

\* The buckets under consumes, refills and reconfigurations: one connection reads
\* against the clock while one goroutine sets limits.
NextBucket ==
  \/ \E g \in ArgValues, p \in ArgValues : NewLimitedListener(g, p)
  \/ AcceptBegin("a1")
  \/ AcceptStore("a1")
  \/ \E g \in ArgValues, p \in ArgValues : SetLimitsCall("s1", g, p)
  \/ SetLimitsRejected("s1")
  \/ SetGlobalLimit("s1")
  \/ SetGlobalBurst("s1")
  \/ SetConnLimit("s1")
  \/ SetConnBurst("s1")
  \/ SetLimitsReturn("s1")
  \/ \E n \in 1..MaxBuf : ReadCall(1, n)
  \/ ReadBurstTake1(1)
  \/ ReadGlobalWait(1)
  \/ ReadBurstTest2(1)
  \/ ReadBurstTake2(1)
  \/ ReadLocalWait(1)
  \/ ReadConn(1)
  \/ Tick

SpecBucket == Init /\ [][NextBucket]_vars

\* Writes of a connection among its Reads, against the clock, under fixed limits.
NextWrite ==
  \/ \E g \in ArgValues, p \in ArgValues : NewLimitedListener(g, p)
  \/ AcceptBegin("a1")
  \/ AcceptStore("a1")
  \/ \E n \in 1..MaxBuf : ReadCall(1, n)
  \/ ReadBurstTake1(1)
  \/ ReadGlobalWait(1)
  \/ ReadBurstTest2(1)
  \/ ReadLocalWait(1)
  \/ ReadConn(1)
  \/ Write(1)
  \/ Tick

SpecWrite == Init /\ [][NextWrite]_vars

\* The listener is closed while one accept loop, one goroutine setting limits and
\* the handler of one connection (its Reads and its Close) run; the clock stands
\* still.
NextListenerClose ==
  \/ \E g \in ArgValues, p \in ArgValues : NewLimitedListener(g, p)
  \/ AcceptBegin("a1")
  \/ AcceptError("a1")
  \/ AcceptStore("a1")
  \/ ListenerClose
  \/ \E g \in ArgValues, p \in ArgValues : SetLimitsCall("s1", g, p)
  \/ SetLimitsRejected("s1")
  \/ SetGlobalLimit("s1")
  \/ SetGlobalBurst("s1")
  \/ SetConnLimit("s1")
  \/ SetConnBurst("s1")
  \/ SetLimitsReturn("s1")
  \/ CloseRaw(1, "k1")
  \/ CloseRemove(1, "k1")
  \/ \E n \in 1..MaxBuf : ReadCall(1, n)
  \/ ReadBurstTake1(1)
  \/ ReadGlobalWait(1)
  \/ ReadBurstTest2(1)
  \/ ReadBurstTake2(1)
  \/ ReadLocalWait(1)
  \/ ReadConn(1)

SpecListenerClose == Init /\ [][NextListenerClose]_vars

\* Reads of one connection while SetLimits moves the limits between a value below
\* and a value above the length of the buffer.
NextResize ==
  \/ \E g \in GrowLimits, p \in GrowLimits : NewLimitedListener(g, p)
  \/ AcceptBegin("a1")
  \/ AcceptStore("a1")
  \/ \E g \in GrowLimits, p \in GrowLimits : SetLimitsCall("s1", g, p)
  \/ SetLimitsRejected("s1")
  \/ SetGlobalLimit("s1")
  \/ SetGlobalBurst("s1")
  \/ SetConnLimit("s1")
  \/ SetConnBurst("s1")
  \/ SetLimitsReturn("s1")
  \/ \E n \in 1..MaxBuf : ReadCall(1, n)
  \/ ReadBurstTake1(1)
  \/ ReadGlobalWait(1)
  \/ ReadBurstTest2(1)
  \/ ReadBurstTake2(1)
  \/ ReadLocalWait(1)
  \/ ReadConn(1)
  \/ Tick

SpecResize == Init /\ [][NextResize]_vars

\* Two goroutines setting limits while one accept loop runs; no Read runs, so the
\* clock stands still.
NextSerial ==
  \/ \E g \in ArgValues, p \in ArgValues : NewLimitedListener(g, p)
  \/ AcceptBegin("a1")
  \/ AcceptStore("a1")
  \/ \E s \in Setters, g \in ArgValues, p \in ArgValues : SetLimitsCall(s, g, p)
  \/ \E s \in Setters : SetLimitsRejected(s)
  \/ \E s \in Setters : SetGlobalLimit(s)
  \/ \E s \in Setters : SetGlobalBurst(s)
  \/ \E s \in Setters : SetConnLimit(s)
  \/ \E s \in Setters : SetConnBurst(s)
  \/ \E s \in Setters : SetLimitsReturn(s)

SpecSerial == Init /\ [][NextSerial]_vars

\* The steps a goroutine takes by itself once its call has been made: the Go
\* scheduler lets every runnable goroutine run, a goroutine blocked on the listener's
\* lock is woken when the lock is released, and the clock advances.  The calls
\* themselves (Accept, SetLimits, Close, Read) are made when the callers choose.
FairLocking ==
  /\ \A a \in Acceptors : WF_vars(AcceptStore(a))
  /\ \A s \in Setters :
       /\ WF_vars(SetLimitsRejected(s)) /\ WF_vars(SetGlobalLimit(s))
       /\ WF_vars(SetGlobalBurst(s)) /\ WF_vars(SetConnLimit(s))
       /\ WF_vars(SetConnBurst(s)) /\ WF_vars(SetLimitsReturn(s))
  /\ \A c \in Conns, k \in Closers : WF_vars(CloseRemove(c, k))

\* Accept, SetLimits and Close calls around a Read that waits for tokens; the clock
\* stands still, so a Read that has to wait stays blocked.
NextLocking ==
  \/ \E g \in ArgValues, p \in ArgValues : NewLimitedListener(g, p)
  \/ \E a \in Acceptors : AcceptBegin(a)
  \/ \E a \in Acceptors : AcceptStore(a)
  \/ \E g \in ArgValues, p \in ArgValues : SetLimitsCall("s1", g, p)
  \/ SetLimitsRejected("s1")
  \/ SetGlobalLimit("s1")
  \/ SetGlobalBurst("s1")
  \/ SetConnLimit("s1")
  \/ SetConnBurst("s1")
  \/ SetLimitsReturn("s1")
  \/ \E c \in Conns : CloseRaw(c, "k1")
  \/ \E c \in Conns : CloseRemove(c, "k1")
  \/ \E n \in 1..MaxBuf : ReadCall(1, n)
  \/ ReadBurstTake1(1)
  \/ ReadGlobalWait(1)
  \/ ReadBurstTest2(1)
  \/ ReadBurstTake2(1)
  \/ ReadLocalWait(1)
  \/ ReadConn(1)

SpecLocking == Init /\ [][NextLocking]_vars /\ FairLocking

\* Time passes, and a Read that has been called takes its steps up to the transport
\* read; when the transport read returns is the transport's affair.
FairProgress ==
  /\ WF_vars(Tick) /\ WF_vars(TickWaiting)
  /\ \A c \in Conns :
       /\ WF_vars(ReadBurstTake1(c)) /\ WF_vars(ReadGlobalWait(c))
       /\ WF_vars(ReadBurstTest2(c)) /\ WF_vars(ReadLocalWait(c))

\* Reads of all connections under fixed limits, with the clock running on while a
\* Read sleeps.
NextProgress ==
  \/ \E g \in ArgValues, p \in ArgValues : NewLimitedListener(g, p)
  \/ AcceptBegin("a1")
  \/ AcceptStore("a1")
  \/ \E c \in Conns, n \in 1..MaxBuf : ReadCall(c, n)
  \/ \E c \in Conns : ReadBurstTake1(c)
  \/ \E c \in Conns : ReadGlobalWait(c)
  \/ \E c \in Conns : ReadBurstTest2(c)
  \/ \E c \in Conns : ReadLocalWait(c)
  \/ \E c \in Conns : ReadConn(c)
  \/ Tick
  \/ TickWaiting

SpecProgress == Init /\ [][NextProgress]_vars /\ FairProgress

\* Reads of one connection while two goroutines move the limits between a value
\* below and a value above the length of the buffer; the clock stands still, so a
\* Read that has to sleep after taking its tokens does not return.
NextAccounting ==
  \/ \E g \in GrowLimits, p \in GrowLimits : NewLimitedListener(g, p)
  \/ AcceptBegin("a1")
  \/ AcceptStore("a1")
  \/ \E s \in Setters, g \in GrowLimits, p \in GrowLimits : SetLimitsCall(s, g, p)
  \/ \E s \in Setters : SetLimitsRejected(s)
  \/ \E s \in Setters : SetGlobalLimit(s)
  \/ \E s \in Setters : SetGlobalBurst(s)
  \/ \E s \in Setters : SetConnLimit(s)
  \/ \E s \in Setters : SetConnBurst(s)
  \/ \E s \in Setters : SetLimitsReturn(s)
  \/ \E n \in 1..MaxBuf : ReadCall(1, n)
  \/ ReadBurstTake1(1)
  \/ ReadGlobalWait(1)
  \/ ReadBurstTest2(1)
  \/ ReadBurstTake2(1)
  \/ ReadLocalWait(1)
  \/ ReadConn(1)

SpecAccounting == Init /\ [][NextAccounting]_vars

\* Reads against the clock under fixed limits: no SetLimits call is made, so no
\* burst ever changes and the second "allowed = lc.limiter.Burst()" is never taken.
NextThroughput ==
  \/ \E g \in ArgValues, p \in ArgValues : NewLimitedListener(g, p)
  \/ AcceptBegin("a1")
  \/ AcceptStore("a1")
  \/ \E c \in Conns, n \in 1..MaxBuf : ReadCall(c, n)
  \/ \E c \in Conns : ReadBurstTake1(c)
  \/ \E c \in Conns : ReadGlobalWait(c)
  \/ \E c \in Conns : ReadBurstTest2(c)
  \/ \E c \in Conns : ReadLocalWait(c)
  \/ \E c \in Conns : ReadConn(c)
  \/ Tick

SpecThroughput == Init /\ [][NextThroughput]_vars

\* ======================================================================= claims
\* The limits of a limiter: rate and burst.
RateBurst(lim) == <<lim.limit, lim.burst>>

\* A Close call on c has begun (its raw close has been made).
CloseBegun(c) == \E k \in Closers : cl[c][k] # "idle"

\* No operation of the listener or of a connection is in progress.
Quiescent ==
  /\ \A a \in Acceptors : acc[a].pc = "idle"
  /\ \A s \in Setters : set[s].pc = "idle"
  /\ \A c \in Conns : rd[c].pc = "idle" /\ \A k \in Closers : cl[c][k] \notin {"remove", "removeErr"}
  /\ lockW = "free" /\ lockR = {}

RECURSIVE SumTo(_, _)
\* f[0] + ... + f[t].
SumTo(f, t) == IF t < 0 THEN 0 ELSE f[t] + SumTo(f, t - 1)

\* Bytes the Reads of connection c returned in the window of seconds t1..t2.
ConnBytesIn(c, t1, t2) == SumTo(hist.bytes[c], t2) - SumTo(hist.bytes[c], t1 - 1)

RECURSIVE SumOver(_, _, _)
\* The sum of ConnBytesIn(c, t1, t2) over the connections c of S.
SumOver(S, t1, t2) ==
  IF S = {} THEN 0
  ELSE LET c == CHOOSE d \in S : TRUE
       IN  ConnBytesIn(c, t1, t2) + SumOver(S \ {c}, t1, t2)

\* Bytes Read returned, over all connections, in the window of seconds t1..t2.
BytesIn(t1, t2) == SumOver(Conns, t1, t2)

\* No valid SetLimits call has been made: the limits are those of the construction.
LimitsFixed == \A s \in Setters : hist.setStarted[s] = 0

\* C1: NewLimitedListener(global, perConn) returns ErrLimitOutOfRange exactly when
\* global <= 0 or perConn <= 0, ErrInvalidLimits exactly when both are positive and
\* global < perConn, and otherwise succeeds; a listener exists exactly when the call
\* succeeded; the listener just constructed has a global bucket with rate = burst =
\* global, the per-connection limit perConn and an empty registry, and after an
\* error nothing has been built.
C1_Construction ==
  LET g == newArgs[1]
      p == newArgs[2]
  IN  /\ newResult = "none" => ~constructed
      /\ newResult # "none" =>
           /\ (newResult = "ErrLimitOutOfRange") <=> (g <= 0 \/ p <= 0)
           /\ (newResult = "ErrInvalidLimits") <=> (g > 0 /\ p > 0 /\ g < p)
           /\ (newResult = "nil") <=> (0 < p /\ p <= g)
           /\ constructed <=> (newResult = "nil")
      /\ ~constructed =>
           /\ globalLimiter = NoLimiter /\ perConnBandwidthLimit = 0
           /\ connections = {} /\ nextConn = 0
      /\ (constructed /\ nextConn = 0 /\ LimitsFixed) =>
           /\ RateBurst(globalLimiter) = <<g, g>>
           /\ perConnBandwidthLimit = p
           /\ connections = {}

\* C1 witness: a construction with global > perConn has just succeeded.
C1_Witness == constructed /\ newResult = "nil" /\ newArgs[1] > newArgs[2] /\ nextConn = 0

\* C2: a SetLimits call with global <= 0, perConn <= 0 or global < perConn is
\* rejected at once, and neither that step nor the call's return changes the global
\* bucket, the stored per-connection limit, any local bucket, the registry or the
\* lock.
C2_InvalidSetLimitsNoOp ==
  [][\A s \in Setters :
       /\ \A g \in ArgValues, p \in ArgValues :
            (SetLimitsCall(s, g, p) /\ (g <= 0 \/ p <= 0 \/ g < p)) =>
              /\ set'[s].pc = "rejected"
              /\ UNCHANGED <<globalLimiter, perConnBandwidthLimit, limiter,
                             connections, lockW, lockR>>
       /\ (set[s].pc = "rejected" /\ set'[s] # set[s]) =>
              /\ set'[s] = IdleSet
              /\ UNCHANGED <<globalLimiter, perConnBandwidthLimit, limiter,
                             connections, lockW, lockR>>]_vars

\* C2 witness: a call has been rejected while two connections are registered.
C2_Witness == \E s \in Setters : set[s].pc = "rejected" /\ Cardinality(connections) = 2

\* C3: when a valid SetLimits(g, p) completes (its range is over, the lock is about
\* to be released), the global bucket has rate = burst = g, the stored
\* per-connection limit is p and every registered connection's local bucket has
\* rate = burst = p.
C3_ValidSetLimits ==
  \A s \in Setters :
    (set[s].pc = "range" /\ set[s].todo = {}) =>
      /\ 0 < set[s].perConn /\ set[s].perConn <= set[s].global
      /\ RateBurst(globalLimiter) = <<set[s].global, set[s].global>>
      /\ perConnBandwidthLimit = set[s].perConn
      /\ \A c \in connections : RateBurst(limiter[c]) = <<set[s].perConn, set[s].perConn>>

\* C3 witness: a SetLimits that changed both limits completes with two connections
\* registered.
C3_Witness ==
  \E s \in Setters :
    /\ set[s].pc = "range" /\ set[s].todo = {}
    /\ Cardinality(connections) = 2
    /\ set[s].global # newArgs[1] /\ set[s].perConn # newArgs[2]

\* C4: a connection being registered has a local bucket with rate = burst = the
\* stored per-connection limit, and every connection Accept has returned is in the
\* registry (until a Close on it begins).
C4_AcceptRegisters ==
  /\ \A a \in Acceptors :
       acc[a].pc = "store" =>
         RateBurst(limiter[acc[a].conn]) = <<perConnBandwidthLimit, perConnBandwidthLimit>>
  /\ \A c \in hist.accepted : ~CloseBegun(c) => c \in connections

\* C5: at every quiescent point the registry holds exactly the connections Accept
\* has returned and no Close has completed for, and its size is the number of
\* Accepts completed minus the number of connections closed.
C5_RegistryMembership ==
  Quiescent =>
    /\ connections = hist.accepted \ hist.closed
    /\ Cardinality(connections) = Cardinality(hist.accepted) - Cardinality(hist.closed)

\* C6: the Close calls on one connection delete at most one map entry between them,
\* and only that connection's; every call is forwarded to the raw connection; once
\* a Close has returned the connection is not registered; and a registered
\* connection leaves the registry through exactly one deletion.
C6_CloseIdempotent ==
  \A c \in Conns :
    /\ hist.removals[c] <= 1
    /\ hist.rawCloses[c] = Cardinality({k \in Closers : cl[c][k] # "idle"})
    /\ c \in hist.closed => c \notin connections
    /\ hist.removals[c] = 1 => (c \in hist.closed /\ c \notin connections)
    /\ hist.removed[c] \subseteq {c}

\* C6 witness: both Close calls on a connection have returned, and exactly one of
\* them deleted its entry, while the other connection is still registered.
C6_Witness ==
  \E c \in Conns :
    /\ \A k \in Closers : cl[c][k] = "done"
    /\ hist.removals[c] = 1
    /\ connections = Conns \ {c}

\* C7: in every state of a constructed listener all rates are positive, and the
\* global rate is at least the stored per-connection limit and at least every
\* registered connection's local rate.
C7_LimitOrder ==
  constructed =>
    /\ globalLimiter.limit > 0 /\ perConnBandwidthLimit > 0
    /\ globalLimiter.limit >= perConnBandwidthLimit
    /\ \A c \in connections :
         limiter[c].limit > 0 /\ globalLimiter.limit >= limiter[c].limit

\* C8: the tokens a Read is about to request from its local bucket never exceed
\* that bucket's burst, so the local wait never fails.
C8_LocalRequestWithinBurst ==
  \A c \in Conns : rd[c].pc = "lwait" => rd[c].allowed <= limiter[c].burst

\* C9: the global wait of a Read always succeeds (a request above the global burst
\* is capped, never refused): the Read goes on to its re-check of the local burst.
C9_GlobalWaitSucceeds ==
  [][\A c \in Conns :
       (rd[c].pc = "gwait" /\ rd'[c] # rd[c]) => rd'[c].pc = "test2"]_vars

\* C10 as stated: under fixed limits (G, P), the bytes Read returned in any window
\* of T seconds are at most G * T + G.
C10_AnyWindow ==
  LimitsFixed =>
    \A t1 \in 0..now : \A t2 \in t1..now :
      BytesIn(t1, t2) <= globalLimiter.limit * (t2 - t1) + globalLimiter.burst

\* C10 amended: under fixed limits (G, P), the bytes Read returned in any window
\* that starts when the listener is constructed, second 0 to second T, are at most
\* G * T + G.
C10_FromConstruction ==
  (constructed /\ LimitsFixed) =>
    \A t2 \in 0..now :
      BytesIn(0, t2) <= globalLimiter.limit * t2 + globalLimiter.burst

\* C10 witness: the bound is met with equality after the clock has advanced, both
\* connections having read.
C10_Witness ==
  /\ constructed /\ LimitsFixed /\ now >= 1 /\ hist.reads >= 2
  /\ \A c \in Conns : rd[c].pc = "idle"
  /\ BytesIn(0, now) = globalLimiter.limit * now + globalLimiter.burst

\* C11 as stated: with the per-connection limit fixed at R, the bytes the Reads of
\* one connection returned in any window of T seconds are at most R * T + R.
C11_ConnAnyWindow ==
  LimitsFixed =>
    \A c \in hist.accepted : \A t1 \in 0..now : \A t2 \in t1..now :
      ConnBytesIn(c, t1, t2) <= perConnBandwidthLimit * (t2 - t1) + perConnBandwidthLimit

\* C11 amended: with the per-connection limit fixed at R, the bytes the Reads of
\* one connection returned in any window that starts when the connection is
\* accepted are at most R * T + R, T the length of the window, whatever the global
\* bucket holds.
C11_ConnFromAccept ==
  LimitsFixed =>
    \A c \in hist.accepted : \A t2 \in hist.acceptedAt[c]..now :
      ConnBytesIn(c, hist.acceptedAt[c], t2)
        <= perConnBandwidthLimit * (t2 - hist.acceptedAt[c]) + perConnBandwidthLimit

\* C11 witness: a connection has met its bound with equality after the clock has
\* advanced, the global rate being above the per-connection rate and the global
\* bucket still holding tokens.
C11_Witness ==
  \E c \in hist.accepted :
    /\ LimitsFixed /\ now >= 1 /\ rd[c].pc = "idle" /\ rd[c].err = "nil"
    /\ globalLimiter.limit > perConnBandwidthLimit
    /\ Advance(globalLimiter, now) > 0
    /\ ConnBytesIn(c, hist.acceptedAt[c], now)
         = perConnBandwidthLimit * (now - hist.acceptedAt[c]) + perConnBandwidthLimit
    /\ ConnBytesIn(c, now, now) > 0 /\ ConnBytesIn(c, 0, now - 1) > 0

\* A step of SetLimits.
SetLimitsStep == set' # set

\* The tokens a bucket holds for a consume made now.
Available(lim) == Advance(lim, now)

\* C12: whenever a Read is about to look at a bucket (the global bucket in its
\* global wait, its local bucket in a Burst() call or in its local wait), that
\* bucket's rate equals its burst: no Read finds a bucket between the two halves
\* of a reconfiguration.
C12_RateEqualsBurst ==
  \A c \in Conns :
    /\ rd[c].pc = "gwait" => globalLimiter.limit = globalLimiter.burst
    /\ rd[c].pc \in {"take1", "test2", "take2", "lwait"} =>
         limiter[c].limit = limiter[c].burst

\* C13: the tokens a bucket holds for the next consume never exceed its burst, and
\* a reconfiguration (a SetLimit or SetBurst call of SetLimits) leaves the bucket
\* with the tokens it had accrued, capped at the burst it now has: never more than
\* before, never a refill.
C13_TokensCapped ==
  [][/\ Available(globalLimiter) <= globalLimiter.burst
     /\ \A c \in Conns : Available(limiter[c]) <= limiter[c].burst
     /\ (SetLimitsStep /\ globalLimiter' # globalLimiter) =>
          Advance(globalLimiter', now) = Min(globalLimiter'.burst, Available(globalLimiter))
     /\ \A c \in Conns :
          (SetLimitsStep /\ limiter'[c] # limiter[c]) =>
            Advance(limiter'[c], now) = Min(limiter'[c].burst, Available(limiter[c]))]_vars

\* C13 witness: SetLimits has widened the burst of the global bucket and of a local
\* bucket that Reads had drawn from, and both hold fewer tokens than the old burst.
C13_Witness ==
  \E s \in Setters, c \in connections :
    /\ set[s].pc = "range" /\ set[s].todo = {}
    /\ set[s].global > newArgs[1] /\ set[s].perConn > newArgs[2]
    /\ Available(globalLimiter) < newArgs[1]
    /\ Available(limiter[c]) < newArgs[2]

\* C15: a token wait of Read that fails leaves the bucket it was made on as it was,
\* and Read returns at once with that wait's error and no bytes.  (Read waits with
\* context.Background(), which is never cancelled: a request above the burst is
\* the only failure.)
C15_FailedWait ==
  [][\A c \in Conns :
       /\ (rd[c].pc = "gwait" /\ rd'[c] # rd[c] /\ rd'[c].pc # "test2") =>
            /\ globalLimiter' = globalLimiter
            /\ rd'[c] = ReturnedRd("global")
            /\ hist'.bytes = hist.bytes
       /\ (rd[c].pc = "lwait" /\ rd'[c] # rd[c] /\ rd'[c].pc # "read") =>
            /\ limiter'[c] = limiter[c]
            /\ rd'[c] = ReturnedRd("local")
            /\ hist'.bytes = hist.bytes
       /\ (rd'[c].err \in {"global", "local"} /\ rd'[c] # rd[c]) =>
            /\ rd[c].pc = (IF rd'[c].err = "global" THEN "gwait" ELSE "lwait")
            /\ ~WaitOk(IF rd'[c].err = "global" THEN globalLimiter ELSE limiter[c],
                       rd[c].allowed)]_vars

\* C15 witness: a Read has returned the error of its local wait, after a Read that
\* returned the error of its global wait or none.
C15_Witness ==
  \E c \in Conns : rd[c].err = "local" /\ hist.reads = 2

\* The goroutines inside a critical section of the registry: the holders of the
\* listener's lock, in either mode.
InCritical == lockR \cup (IF lockW = "free" THEN {} ELSE {lockW})

\* C14: registrations, deregistrations and broadcasts exclude each other: at most
\* one goroutine is inside a critical section of the registry, and at most one
\* Accept is at its map write.
C14_ExclusiveRegistry ==
  /\ Cardinality(InCritical) <= 1
  /\ Cardinality({a \in Acceptors : acc[a].pc = "store"}) <= 1

\* C18: while no SetLimits is inside its critical section, every registered
\* connection's local bucket has rate = burst = the stored per-connection limit;
\* and once no SetLimits call is in progress, so has every connection Accept has
\* returned (and no Close has begun on): none is left with a stale limit.
C18_LimitConsistency ==
  /\ lockW = "free" =>
       \A c \in connections :
         RateBurst(limiter[c]) = <<perConnBandwidthLimit, perConnBandwidthLimit>>
  /\ (\A s \in Setters : set[s].pc = "idle") =>
       \A c \in hist.accepted :
         ~CloseBegun(c) =>
           RateBurst(limiter[c]) = <<perConnBandwidthLimit, perConnBandwidthLimit>>

\* C16: a Write on an accepted connection is forwarded to the raw connection
\* whatever the buckets hold (it is never made to wait), and it changes neither
\* the global bucket nor any local bucket nor the Read in progress.
C16_WriteNotThrottled ==
  /\ [](\A c \in hist.accepted : ENABLED Write(c))
  /\ [][\A c \in Conns :
          hist'.wrote[c] # hist.wrote[c] =>
            UNCHANGED <<globalLimiter, limiter, rd, connections>>]_vars

\* C16 witness: a Write went through while a Read of the same connection was
\* waiting for tokens, the global and the local bucket both being empty.
C16_Witness ==
  \E c \in hist.accepted :
    /\ hist.wrote[c] = "empty"
    /\ rd[c].pc = "read" /\ rd[c].wake > now

\* C17: closing the listener changes neither the registry nor any bucket nor the
\* stored limit nor any call in progress; from then on Accept hands out no
\* connection, and an Accept that returns the raw error registers nothing; and the
\* connections accepted before can still start a Read, a Close and be reached by a
\* SetLimits.
C17_ListenerCloseOnly ==
  /\ [][hist'.listenerClosed # hist.listenerClosed =>
          UNCHANGED <<connections, globalLimiter, limiter, perConnBandwidthLimit,
                      acc, set, rd, cl, lockW, lockR>>]_vars
  /\ [][hist'.acceptFailed # hist.acceptFailed =>
          UNCHANGED <<connections, nextConn, limiter, acc, lockW, lockR>>]_vars
  /\ [](hist.listenerClosed =>
          /\ \A a \in Acceptors : ~ENABLED AcceptBegin(a)
          /\ \A a \in Acceptors : acc[a].pc = "idle" => ENABLED AcceptError(a)
          /\ \A c \in hist.accepted :
               /\ (rd[c].pc = "idle" /\ hist.reads < MaxReads) => ENABLED ReadCall(c, 1)
               /\ \A k \in Closers : cl[c][k] = "idle" => ENABLED CloseRaw(c, k)
               /\ \A k \in Closers :
                    (cl[c][k] = "remove" /\ InCritical = {}) => ENABLED CloseRemove(c, k)
          /\ \A s \in Setters :
               (set[s].pc = "idle" /\ hist.setStarted[s] < MaxSetCalls) =>
                 ENABLED SetLimitsCall(s, MaxLimit, 1))

\* C17 witness: after the listener was closed an Accept has failed, a SetLimits
\* call made since has reached the connection accepted before, a Read started
\* since has returned, and a Close made since has deregistered the connection.
C17_Witness ==
  /\ hist.listenerClosed /\ hist.acceptFailed = "closed"
  /\ 1 \in hist.accepted /\ 1 \notin hist.atClose.closed
  /\ hist.atClose.sets = 0 /\ hist.setStarted["s1"] = 1 /\ set["s1"].pc = "idle"
  /\ RateBurst(limiter[1]) = <<hist.lastSet[2], hist.lastSet[2]>>
  /\ hist.lastSet[2] # newArgs[2]
  /\ hist.atClose.reads = 0 /\ rd[1].err = "nil"
  /\ 1 \in hist.closed /\ 1 \notin connections

\* The bytes the Reads of connection c return in this step.
Returned(c) == SumTo(hist'.bytes[c], Horizon) - SumTo(hist.bytes[c], Horizon)

\* C19: a Read takes tokens from the global bucket only in its global wait, goes on
\* to the re-check only from a global wait that succeeded, takes tokens from its
\* local bucket only in the local wait that follows the re-check, reads from the
\* transport only after a local wait that succeeded, and returns n bytes with
\* n <= min(len(b), the local burst the re-check read).
C19_ReadOrder ==
  [][\A c \in Conns :
       /\ (rd'[c] # rd[c] /\ globalLimiter' # globalLimiter) =>
            rd[c].pc = "gwait" /\ rd'[c].pc = "test2"
       /\ (rd'[c] # rd[c] /\ limiter'[c] # limiter[c]) =>
            rd[c].pc = "lwait" /\ rd'[c].pc = "read"
       /\ (rd'[c].pc = "test2" /\ rd[c].pc # "test2") =>
            /\ rd[c].pc = "gwait"
            /\ globalLimiter' = Reserve(globalLimiter, now, rd[c].allowed)
       /\ (rd'[c].pc \in {"take2", "lwait"} /\ rd[c].pc # rd'[c].pc) =>
            rd[c].pc \in {"test2", "take2"}
       /\ (rd'[c].pc = "read" /\ rd[c].pc # "read") =>
            /\ rd[c].pc = "lwait"
            /\ limiter'[c] = Reserve(limiter[c], now, rd[c].allowed)
       /\ (rd'[c].err = "nil" /\ rd'[c] # rd[c]) => rd[c].pc = "read"
       /\ Returned(c) # 0 => (rd[c].pc = "read" /\ rd'[c].err = "nil")
       /\ Returned(c) <= Min(rd[c].len, rd[c].seen)]_vars

\* The setters inside the critical section of SetLimits.
Setting == {s \in Setters : set[s].pc \in {"gburst", "range", "cburst"}}

\* C20: at most one SetLimits is inside its critical section, and whenever none is,
\* the global rate and burst, the stored per-connection limit and the rate and
\* burst of every registered connection are those of one call, the one that took
\* the lock last.
C20_Serialized ==
  /\ Cardinality(Setting) <= 1
  /\ (Setting = {} /\ hist.lastSet # <<0, 0>>) =>
       /\ RateBurst(globalLimiter) = <<hist.lastSet[1], hist.lastSet[1]>>
       /\ perConnBandwidthLimit = hist.lastSet[2]
       /\ \A c \in connections : RateBurst(limiter[c]) = <<hist.lastSet[2], hist.lastSet[2]>>

\* C20 witness: two SetLimits calls that overlapped have both completed, with two
\* connections registered, and the limits in force are not those of the
\* construction.
C20_Witness ==
  /\ hist.contended
  /\ \A s \in Setters : hist.setStarted[s] = 1 /\ set[s].pc = "idle"
  /\ Cardinality(connections) = 2
  /\ hist.lastSet[1] # newArgs[1] /\ hist.lastSet[2] # newArgs[2]

\* C21: whatever the Reads do (one blocked in a token wait holds no lock), every
\* SetLimits that has been started returns, every Close that has closed its raw
\* connection returns, and every Accept that has received a raw connection
\* registers it and returns.
C21_NoDeadlock ==
  /\ \A s \in Setters : (set[s].pc = "lock") ~> (set[s].pc = "idle")
  /\ \A c \in Conns, k \in Closers : (cl[c][k] = "remove") ~> (cl[c][k] = "done")
  /\ \A a \in Acceptors : (acc[a].pc = "store") ~> (acc[a].pc = "idle")

\* Read c has been called and has not yet reached its transport read.
Waiting(c) == rd[c].pc \in {"take1", "gwait", "test2", "lwait"}

\* Read c is at its transport read, both token waits behind it.
AtTransportRead(c) == rd[c].pc = "read" /\ now >= rd[c].wake

\* C22: with the limits fixed and time passing, both rates are positive, the amount
\* a Read asks a bucket for is at least 1 and at most that bucket's burst, and
\* every Read that has been called reaches its transport read, whatever the other
\* connection takes from the global bucket.
C22_ReadProgress ==
  /\ [](constructed => globalLimiter.limit > 0 /\ perConnBandwidthLimit > 0)
  /\ [](\A c \in Conns :
          /\ rd[c].pc = "gwait" =>
               (1 <= rd[c].allowed /\ rd[c].allowed <= Burst(globalLimiter))
          /\ rd[c].pc = "lwait" =>
               (1 <= rd[c].allowed /\ rd[c].allowed <= Burst(limiter[c])
                 /\ limiter[c].limit > 0))
  /\ \A c \in Conns : Waiting(c) ~> AtTransportRead(c)

\* C22 witness: a Read is at its transport read after a token wait that made it
\* sleep, the other connection having read before it.
C22_Witness ==
  \E c \in Conns :
    /\ AtTransportRead(c) /\ rd[c].wake >= 1
    /\ \E d \in Conns \ {c} : rd[d].err = "nil"

\* C23: a connection enters the registry only by the map write of the Accept that
\* created it, before that Accept returns; and once a Close has deleted it, no
\* step puts it back.
C23_NoReopen ==
  [][\A c \in Conns :
       /\ (c \notin connections /\ c \in connections') =>
            /\ c \notin hist.accepted
            /\ \E a \in Acceptors : acc[a].pc = "store" /\ acc[a].conn = c
       /\ hist.removed[c] # {} => c \notin connections']_vars

\* C23 witness: connection 1 has been deleted by a Close and closed a second time,
\* and a SetLimits has completed, while connection 2 is registered.
C23_Witness ==
  /\ hist.removed[1] = {1} /\ \A k \in Closers : cl[1][k] = "done"
  /\ hist.lastSet # <<0, 0>> /\ \A s \in Setters : set[s].pc = "idle"
  /\ connections = {2}

\* C24: the tokens the Reads have taken from the global bucket are at least those
\* they have taken from the local buckets, which are at least the bytes they have
\* returned; and a Read whose token wait fails returns no byte and has not reached
\* the transport read.
C24_TokenAccounting ==
  /\ [](hist.taken.global >= hist.taken.local)
  /\ [](hist.taken.local >= BytesIn(0, Horizon))
  /\ [][\A c \in Conns :
          (rd'[c].err \in {"global", "local"} /\ rd'[c] # rd[c]) =>
            (Returned(c) = 0 /\ rd[c].pc # "read")]_vars

\* Closes whose raw close may fail, beside the accepting goroutines and one
\* SetLimits caller.
NextCloseError ==
  \/ \E g \in ArgValues, p \in ArgValues : NewLimitedListener(g, p)
  \/ \E a \in Acceptors : AcceptBegin(a)
  \/ \E a \in Acceptors : AcceptStore(a)
  \/ \E g \in ArgValues, p \in ArgValues : SetLimitsCall("s1", g, p)
  \/ SetLimitsRejected("s1")
  \/ SetGlobalLimit("s1")
  \/ SetGlobalBurst("s1")
  \/ SetConnLimit("s1")
  \/ SetConnBurst("s1")
  \/ SetLimitsReturn("s1")
  \/ \E c \in Conns, k \in Closers : CloseRaw(c, k)
  \/ \E c \in Conns, k \in Closers : CloseRawError(c, k)
  \/ \E c \in Conns, k \in Closers : CloseRemove(c, k)

SpecCloseError == Init /\ [][NextCloseError]_vars

\* C25: an Accept whose raw Accept fails returns the raw error (the one of a closed
\* listener exactly when the listener is closed) and no connection: no raw
\* connection is consumed, no local bucket is created, and the registry, the global
\* bucket, the stored per-connection limit and the lock are unchanged.
C25_AcceptErrorNoEffect ==
  [][hist'.acceptFailed # hist.acceptFailed =>
       /\ hist'.acceptFailed = (IF hist.listenerClosed THEN "closed" ELSE "open")
       /\ hist'.accepted = hist.accepted
       /\ UNCHANGED <<connections, globalLimiter, perConnBandwidthLimit, limiter,
                      nextConn, acc, lockW, lockR>>]_vars

\* C25 witness: an Accept has failed on the open listener while a connection is
\* registered and another one can still be accepted.
C25_Witness ==
  /\ hist.acceptFailed = "open" /\ ~hist.listenerClosed
  /\ connections = {1} /\ nextConn = 1
  /\ \A a \in Acceptors : acc[a].pc = "idle"

\* C26: a Close whose raw close returned an error still deregisters the connection
\* and returns that error (a clean raw close returns nil); the raw close comes
\* first and leaves the registry alone, so a deregistered connection has always had
\* its raw close invoked, and a connection still registered may already be closed.
C26_CloseErrorDeregisters ==
  /\ [](\A c \in Conns : hist.removed[c] # {} => hist.rawCloses[c] > 0)
  /\ [](\A c \in Conns, k \in Closers :
          cl[c][k] \in {"done", "doneErr"} => c \notin connections)
  /\ [][\A c \in Conns, k \in Closers : cl'[c][k] # cl[c][k] =>
          \/ /\ cl[c][k] = "idle" /\ cl'[c][k] \in {"remove", "removeErr"}
             /\ connections' = connections
             /\ hist'.rawCloses[c] = hist.rawCloses[c] + 1
          \/ /\ cl[c][k] = "remove" /\ cl'[c][k] = "done" /\ c \notin connections'
          \/ /\ cl[c][k] = "removeErr" /\ cl'[c][k] = "doneErr" /\ c \notin connections']_vars

\* C26 witness: the Close whose raw close failed is the one that deregistered the
\* connection, and it has returned the error.
C26_Witness ==
  /\ cl[1]["k1"] = "doneErr" /\ cl[1]["k2"] = "idle"
  /\ hist.rawCloses[1] = 1 /\ hist.removed[1] = {1} /\ 1 \notin connections

====
